---- MODULE Spec2Model ----
(***************************************************************************)
(* Vulfram host bindings: the gateway wrappers of packages/engine          *)
(* (vulframInit .. vulframClearBuffer) and of bind/ts (engineInit ..),      *)
(* driven against the native core.  The native core is not part of the     *)
(* host sources; its behaviour is taken from the protocol description.     *)
(***************************************************************************)
EXTENDS Integers, Sequences, FiniteSets, TLC

\* ---------------------------------------------------------------- bounds
MaxBufLen == 2
MaxQueue == 3
MaxEvents == 2

Handles == {1, 2}
BufBytes == {10, 11}
Ids == {1, 2, 7}
Kinds == {0}

\* ------------------------------------------------------- VulframResult
Success == 0
UnknownError == 1
NotInitialized == 2
AlreadyInitialized == 3
WrongThread == 4
BufferOverflow == 5
WinitError == 1000
WgpuInstanceError == 2000
CmdInvalidCborError_wgpu == WgpuInstanceError + 1

CmdInvalidCborError == 3000

\* the members of the enum
VulframResult ==
    {Success, UnknownError, NotInitialized, AlreadyInitialized, WrongThread,
     BufferOverflow, WinitError, WgpuInstanceError, CmdInvalidCborError}

\* the ranges the enum reserves: Winit, WGPU, command processing
WinitRange == 1000..1999
WgpuRange == 2000..2999
CmdRange == 3000..3999

VARIABLES
    initialized,   \* native core: engine instance exists
    bufs,          \* native core: handle -> stored bytes, or NoBuf
    cmdQ,          \* native core: decoded commands not yet processed
    respQ,         \* native core: responses not yet drained
    pc,            \* host: position inside a two-call wrapper
    hId,           \* host: the id argument of the running download (0 when none)
    lengthHolder,  \* host: lengthHolder[0] of the running two-call wrapper
    buffer,        \* host: the Uint8Array allocated for the fill call
    srcPtr,        \* host: ptrHolder[0] of engineDownloadBuffer (0, a handle's
                   \* storage, or Dangling once that storage was changed)
    oob,           \* an access past buffer's allocated length happened
    trace,         \* native calls issued by the current/last wrapper call
    ret,           \* what the last finished wrapper call returned
    pending,       \* correlator: id -> batch position of its pending command, or None
    since,         \* correlator: responses delivered for id since its last submit
    lastDrain,     \* correlator: outcome of the poll made by the last host call
    clr,           \* handle -> clears in a row since it was last populated
    scen,          \* progress of the init / send 7 / tick / receive scenario
    env,           \* platform: what the library table and the file system hold
    proc,          \* host process: VULFRAM_CORE_PATH, the handle of dlopen, how it ended
    dispatch       \* host: the events handed to the guards and the guards they pass

vars == <<initialized, bufs, cmdQ, respQ, pc, hId, lengthHolder, buffer, srcPtr, oob,
          trace, ret, pending, since, lastDrain, clr, scen, env, proc, dispatch>>

hostVars == <<env, proc, dispatch>>

nativeVars == <<initialized, bufs, cmdQ, respQ>>
callVars == <<pc, hId, lengthHolder, buffer, srcPtr>>
corrVars == <<pending, since, lastDrain>>

NoBuf == <<-1>>
None == -1
Dangling == -2
LentStore == -3

Range(s) == {s[i] : i \in 1..Len(s)}
SeqsUpTo(S, n) == UNION {[1..k -> S] : k \in 0..n}

\* new Uint8Array(n): n zero bytes
Uint8Array(n) == [i \in 1..n |-> 0]

\* -------------------------------------------------------------- codec
\* cbor2 encode/decode on the batches this layer carries: an array header
\* (0x80 + n) followed by one item per envelope, each a two-entry map
\* header (0xA2) and the small unsigned integers kind and id.
ArrayHdr == 128
MapHdr == 162
SmallMax == 23

RECURSIVE EncodeItems(_)
EncodeItems(batch) ==
    IF batch = <<>> THEN <<>>
    ELSE <<MapHdr, Head(batch).kind, Head(batch).id>> \o EncodeItems(Tail(batch))

encode(batch) == <<ArrayHdr + Len(batch)>> \o EncodeItems(batch)

WellFormed(bytes) ==
    /\ Len(bytes) >= 1
    /\ bytes[1] >= ArrayHdr
    /\ bytes[1] <= ArrayHdr + SmallMax
    /\ Len(bytes) = 1 + 3 * (bytes[1] - ArrayHdr)
    /\ \A k \in 0..(bytes[1] - ArrayHdr - 1) :
          /\ bytes[2 + 3 * k] = MapHdr
          /\ bytes[3 + 3 * k] \in 0..SmallMax
          /\ bytes[4 + 3 * k] \in 0..SmallMax

\* decode(bytes): the batch, or threw where cbor2 throws
decode(bytes) ==
    IF WellFormed(bytes)
    THEN [threw |-> FALSE,
          value |-> [k \in 1..(bytes[1] - ArrayHdr) |->
                        [kind |-> bytes[3 * k], id |-> bytes[3 * k + 1]]]]
    ELSE [threw |-> TRUE, value |-> <<>>]

\* ------------------------------------------------------- native core
\* The engine_* entry points, as the protocol describes them.

EmptyBufs == [h \in Handles |-> NoBuf]

Stored(h) == IF bufs[h] = NoBuf THEN <<>> ELSE bufs[h]

engine_init_result == IF initialized THEN AlreadyInitialized ELSE Success

engine_dispose_result == IF initialized THEN Success ELSE NotInitialized

engine_upload_buffer_result == IF initialized THEN Success ELSE NotInitialized

engine_clear_buffer_result == IF initialized THEN Success ELSE NotInitialized

engine_tick_result == IF initialized THEN Success ELSE NotInitialized

\* engine_send_queue(ptr, length): decodes the batch and queues its commands
engine_send_queue_result(bytes) ==
    IF ~initialized THEN NotInitialized
    ELSE IF decode(bytes).threw THEN CmdInvalidCborError
    ELSE Success

\* a call with a null destination: only the required size is reported
SizeQuery(stored) ==
    IF ~initialized THEN [r |-> NotInitialized, n |-> 0]
    ELSE [r |-> Success, n |-> Len(stored)]

\* bytes 1..w of stored copied to the destination
WriteBytes(dest, stored, w) ==
    [i \in 1..Len(dest) |-> IF i <= w THEN stored[i] ELSE dest[i]]

\* a call with a destination of capacity cap (the length holder's value on
\* entry): the outcomes the protocol leaves open when the stored size grew
FillOutcomes(stored, cap, dest) ==
    IF ~initialized
    THEN {[r |-> NotInitialized, n |-> cap, dest |-> dest, hi |-> 0, took |-> FALSE]}
    ELSE IF Len(stored) <= cap
    THEN {[r |-> Success, n |-> Len(stored),
           dest |-> WriteBytes(dest, stored, Len(stored)),
           hi |-> Len(stored), took |-> TRUE]}
    ELSE {[r |-> BufferOverflow, n |-> Len(stored), dest |-> dest,
           hi |-> 0, took |-> FALSE],
          [r |-> Success, n |-> Len(stored),
           dest |-> WriteBytes(dest, stored, cap), hi |-> cap, took |-> TRUE]}

\* the response queue as the bytes receive_queue hands out
RespBytes == IF respQ = <<>> THEN <<>> ELSE encode(respQ)

Response(cmd) == [kind |-> cmd.kind, id |-> cmd.id]

RemoveAt(s, i) == SubSeq(s, 1, i - 1) \o SubSeq(s, i + 1, Len(s))

\* every order in which the queued commands can be processed
RECURSIVE Orders(_)
Orders(q) ==
    IF q = <<>> THEN {<<>>}
    ELSE UNION {{<<Response(q[i])>> \o o : o \in Orders(RemoveAt(q, i))} :
                i \in 1..Len(q)}

\* ------------------------------------------------------ host bookkeeping
NoRet == [op |-> "none", id |-> 0, result |-> Success, buf |-> <<>>,
          batch |-> <<>>, threw |-> FALSE, pre |-> FALSE]

Ret(op, id, result, buf, batch, threw) ==
    [op |-> op, id |-> id, result |-> result, buf |-> buf, batch |-> batch,
     threw |-> threw, pre |-> initialized]

Call(fn, dest, r, n) == [fn |-> fn, dest |-> dest, r |-> r, n |-> n]

NoDrain == [delivered |-> <<>>, diag |-> 0, seen |-> 0, pre |-> [i \in Ids |-> None]]

Idle == pc = "idle"

\* ------------------------------------------------- discovery and loading
Platforms == {"darwin", "linux", "win32", "freebsd"}
Archs == {"arm64", "x64", "ia32"}

\* undefined (no table entry) and null (no path), as paths
Undefined == <<>>
Null == <<"null">>

\* VULFRAM_CORE_LIBS[platform]?.[arch]: the table's path, or undefined
VULFRAM_CORE_LIBS(platform, arch) ==
    IF platform \in {"darwin", "linux", "win32"} /\ arch \in {"arm64", "x64"}
    THEN <<"assets", arch, platform>>
    ELSE Undefined

\* the places a table path is looked for: join('../..', path),
\* resolve(MODULE_DIR, path), and path as it stands
Places == {"relative", "absolute", "path"}

\* the platforms, architectures and file systems the module is loaded in
Envs == [platform : Platforms, arch : Archs, exists : SUBSET Places]

getDynamicLibPath_absoluteFirst(path, exists) ==
    IF path = Undefined THEN Null
    ELSE IF "absolute" \in exists THEN <<"absolute", path>>
    ELSE IF "relative" \in exists THEN <<"relative", path>>
    ELSE <<"path", path>>

getDynamicLibPath(path, exists) ==
    IF path = Undefined THEN Null
    ELSE IF "relative" \in exists THEN <<"relative", path>>
    ELSE IF "absolute" \in exists THEN <<"absolute", path>>
    ELSE <<"path", path>>

VULFRAM_CORE_PATH(e) ==
    getDynamicLibPath(VULFRAM_CORE_LIBS(e.platform, e.arch), e.exists)

\* dlopen(path, symbols): opens the file at path, throws when there is none
dlopen(path, exists) == path[1] \in exists

\* evaluation of the module: the throw on a null path, then the one dlopen
Load(e) ==
    LET path == VULFRAM_CORE_PATH(e) IN
    IF path = Null
    THEN [path |-> path, opens |-> 0, handle |-> "none", exit |-> "running"]
    ELSE [path |-> path, opens |-> 1,
          handle |-> IF dlopen(path, e.exists) THEN "open" ELSE "none",
          exit |-> "running"]

\* the environment the gateway specifications run in
HomeEnv == [platform |-> "linux", arch |-> "x64", exists |-> {"relative"}]

NoDispatch == [batch |-> <<>>, hits |-> <<>>]

InitIn(e) ==
    /\ env = e
    /\ proc = Load(e)
    /\ pc = IF Load(e).handle = "open" THEN "idle" ELSE "loadFailed"
    /\ dispatch = NoDispatch
    /\ initialized = FALSE
    /\ bufs = EmptyBufs
    /\ cmdQ = <<>>
    /\ respQ = <<>>
    /\ hId = 0
    /\ lengthHolder = 0
    /\ buffer = <<>>
    /\ srcPtr = 0
    /\ oob = FALSE
    /\ trace = <<>>
    /\ ret = NoRet
    /\ pending = [i \in Ids |-> None]
    /\ since = [i \in Ids |-> 0]
    /\ lastDrain = NoDrain
    /\ clr = [h \in Handles |-> 0]
    /\ scen = 0

Init == InitIn(HomeEnv)

\* ---------------------------------------------------------- lifecycle
vulframInit ==
    /\ Idle
    /\ lastDrain' = NoDrain
    /\ initialized' = TRUE
    /\ trace' = <<Call("engine_init", "none", engine_init_result, 0)>>
    /\ ret' = Ret("init", 0, engine_init_result, <<>>, <<>>, FALSE)
    /\ scen' = IF engine_init_result = Success THEN 1 ELSE 0
    /\ UNCHANGED <<bufs, cmdQ, respQ, callVars, oob, pending, since, clr>>
    /\ UNCHANGED hostVars

vulframDispose_swallow ==
    /\ Idle
    /\ lastDrain' = NoDrain
    /\ initialized' = FALSE
    /\ bufs' = EmptyBufs
    /\ cmdQ' = <<>>
    /\ respQ' = <<>>
    /\ clr' = [h \in Handles |-> 0]
    /\ trace' = <<Call("engine_dispose", "none", engine_dispose_result, 0)>>
    /\ ret' = Ret("dispose", 0, Success, <<>>, <<>>, FALSE)
    /\ scen' = 0
    /\ UNCHANGED <<callVars, oob, pending, since>>
    /\ UNCHANGED hostVars

vulframDispose ==
    /\ Idle
    /\ lastDrain' = NoDrain
    /\ initialized' = FALSE
    /\ bufs' = EmptyBufs
    /\ cmdQ' = <<>>
    /\ respQ' = <<>>
    /\ clr' = [h \in Handles |-> 0]
    /\ trace' = <<Call("engine_dispose", "none", engine_dispose_result, 0)>>
    /\ ret' = Ret("dispose", 0, engine_dispose_result, <<>>, <<>>, FALSE)
    /\ scen' = 0
    /\ UNCHANGED <<callVars, oob, pending, since>>
    /\ UNCHANGED hostVars

\* ------------------------------------------------------------ buffers
vulframUploadBuffer(id, data) ==
    /\ Idle
    /\ lastDrain' = NoDrain
    /\ bufs' = IF initialized THEN [bufs EXCEPT ![id] = data] ELSE bufs
    /\ clr' = IF initialized THEN [clr EXCEPT ![id] = 0] ELSE clr
    /\ trace' = <<Call("engine_upload_buffer", "buf", engine_upload_buffer_result,
                       Len(data))>>
    /\ ret' = Ret("upload", id, engine_upload_buffer_result, <<>>, <<>>, FALSE)
    /\ scen' = 0
    /\ UNCHANGED <<initialized, cmdQ, respQ, callVars, oob, pending, since>>
    /\ UNCHANGED hostVars

vulframClearBuffer_noCall(id) ==
    /\ Idle
    /\ lastDrain' = NoDrain
    /\ bufs' = bufs
    /\ clr' = IF initialized
              THEN [clr EXCEPT ![id] = IF @ < 2 THEN @ + 1 ELSE 2] ELSE clr
    /\ trace' = <<Call("engine_clear_buffer", "none", engine_clear_buffer_result, 0)>>
    /\ ret' = Ret("clear", id, engine_clear_buffer_result, <<>>, <<>>, FALSE)
    /\ scen' = 0
    /\ UNCHANGED <<initialized, cmdQ, respQ, callVars, oob, pending, since>>
    /\ UNCHANGED hostVars

vulframClearBuffer(id) ==
    /\ Idle
    /\ lastDrain' = NoDrain
    /\ bufs' = IF initialized /\ bufs[id] # NoBuf
               THEN [bufs EXCEPT ![id] = <<>>] ELSE bufs
    /\ clr' = IF initialized
              THEN [clr EXCEPT ![id] = IF @ < 2 THEN @ + 1 ELSE 2] ELSE clr
    /\ trace' = <<Call("engine_clear_buffer", "none", engine_clear_buffer_result, 0)>>
    /\ ret' = Ret("clear", id, engine_clear_buffer_result, <<>>, <<>>, FALSE)
    /\ scen' = 0
    /\ UNCHANGED <<initialized, cmdQ, respQ, callVars, oob, pending, since>>
    /\ UNCHANGED hostVars

QueryDest_buffer == "buf"

\* the destination argument of the first native call: null
QueryDest == "null"

QueryReturns_errorOnly(result, len) == result # Success

QueryReturns_never(result, len) == FALSE

\* result !== 0 || lengthHolder[0] === 0n
QueryReturns(result, len) == result # Success \/ len = 0

AllocLen_plus(len) == len + 1

AllocLen_short(len) == len - 1

\* new Uint8Array(Number(lengthHolder[0]))
AllocLen(len) == len

DownloadReturn_stale(result, filled) ==
    [buf |-> IF result # Success THEN <<>>
             ELSE IF ret.buf # <<>> THEN ret.buf ELSE filled,
     result |-> result]

DownloadReturn_keep(result, filled) == [buf |-> filled, result |-> result]

DownloadReturn_ok(result, filled) ==
    [buf |-> IF result # Success THEN <<>> ELSE filled, result |-> Success]

\* if (result !== 0) return [new Uint8Array(0), result]; return [buffer, result]
DownloadReturn(result, filled) ==
    [buf |-> IF result # Success THEN <<>> ELSE filled, result |-> result]

\* if (result !== 0) return [[], result]; return [decode(buffer), result]
ReceiveReturn(result, filled) ==
    IF result # Success
    THEN [batch |-> <<>>, result |-> result, threw |-> FALSE]
    ELSE IF decode(filled).threw
    THEN [batch |-> <<>>, result |-> None, threw |-> TRUE]
    ELSE [batch |-> decode(filled).value, result |-> result, threw |-> FALSE]

\* vulframDownloadBuffer up to and including its first native call
vulframDownloadBuffer_query(id) ==
    /\ Idle
    /\ LET q == SizeQuery(Stored(id)) IN
       /\ trace' = <<Call("engine_download_buffer", QueryDest, q.r, q.n)>>
       /\ IF QueryReturns(q.r, q.n)
          THEN /\ ret' = Ret("download", id, q.r, <<>>, <<>>, FALSE)
               /\ lastDrain' = NoDrain
               /\ UNCHANGED <<callVars>>
          ELSE /\ pc' = "dl_fill"
               /\ hId' = id
               /\ lengthHolder' = q.n
               /\ buffer' = Uint8Array(AllocLen(q.n))
               /\ UNCHANGED <<ret, srcPtr, lastDrain>>
    /\ scen' = 0
    /\ UNCHANGED <<nativeVars, oob, pending, since, clr>>
    /\ UNCHANGED hostVars

\* vulframDownloadBuffer from its second native call to its return
vulframDownloadBuffer_fill ==
    /\ pc = "dl_fill"
    /\ lastDrain' = NoDrain
    /\ \E o \in FillOutcomes(Stored(hId), lengthHolder, buffer) :
       /\ trace' = Append(trace, Call("engine_download_buffer", "buf", o.r, o.n))
       /\ oob' = (o.hi > Len(buffer))
       /\ ret' = Ret("download", hId, DownloadReturn(o.r, o.dest).result,
                     DownloadReturn(o.r, o.dest).buf, <<>>, FALSE)
    /\ pc' = "idle"
    /\ hId' = 0
    /\ lengthHolder' = 0
    /\ buffer' = <<>>
    /\ UNCHANGED <<nativeVars, srcPtr, pending, since, clr, scen>>
    /\ UNCHANGED hostVars

\* an upload (data non-empty) or a clear (data empty) reaches the native
\* core while a wrapper is between its native calls
NativeMutate(h, data) ==
    /\ initialized
    /\ pc # "idle"
    /\ bufs' = [bufs EXCEPT ![h] = IF data = <<>> /\ bufs[h] = NoBuf THEN NoBuf ELSE data]
    /\ bufs' # bufs
    /\ clr' = [clr EXCEPT ![h] = 0]
    /\ srcPtr' = IF srcPtr = h THEN Dangling ELSE srcPtr
    /\ UNCHANGED <<initialized, cmdQ, respQ, pc, hId, lengthHolder, buffer, oob,
                   trace, ret, corrVars, scen>>
    /\ UNCHANGED hostVars

\* ------------------------------------------------- bind/ts: download
\* engine_download_buffer as bind/ts calls it: the native core hands out the
\* address and the size of its own storage
PointerOut(stored, addr) ==
    IF ~initialized THEN [r |-> NotInitialized, ptr |-> 0, n |-> 0]
    ELSE [r |-> Success, ptr |-> IF Len(stored) > 0 THEN addr ELSE 0,
          n |-> Len(stored)]

PointerQuery(h) == PointerOut(Stored(h), h)

\* the same entry point reporting a result code of its own along with the
\* address and size
PointerOutWith(stored, addr, code) ==
    IF ~initialized THEN [r |-> NotInitialized, ptr |-> 0, n |-> 0]
    ELSE [r |-> code, ptr |-> IF Len(stored) > 0 THEN addr ELSE 0,
          n |-> Len(stored)]

\* read.u8(srcPtr, i) for i < count: the stored bytes, or whatever the
\* memory holds once the storage was changed under the pointer
ReadNative(ptr, count) ==
    IF ptr \in Handles /\ Len(Stored(ptr)) >= count
    THEN {SubSeq(Stored(ptr), 1, count)}
    ELSE [1..count -> BufBytes \cup {0}]

\* if (!sizeHolder[0]) return ...; if (!srcPtr) return ...
EngineReturnsEmpty(size, ptr) == size = 0 \/ ptr = 0

\* Buffer.alloc(Number(sizeHolder[0]))
EngineAllocLen(size) == size

\* for (let i = 0; i < buffer.length; i++)
EngineCopyCount(buf) == Len(buf)

\* engineDownloadBuffer up to the allocation of the host buffer
engineDownloadBuffer_call(id) ==
    /\ Idle
    /\ LET q == PointerQuery(id) IN
       /\ trace' = <<Call("engine_download_buffer", "out", q.r, q.n)>>
       /\ IF EngineReturnsEmpty(q.n, q.ptr)
          THEN /\ ret' = Ret("engineDownload", id, q.r, <<>>, <<>>, FALSE)
               /\ lastDrain' = NoDrain
               /\ UNCHANGED <<callVars>>
          ELSE /\ pc' = "ed_copy"
               /\ hId' = id
               /\ lengthHolder' = q.n
               /\ srcPtr' = q.ptr
               /\ buffer' = Uint8Array(EngineAllocLen(q.n))
               /\ UNCHANGED <<ret, lastDrain>>
    /\ scen' = 0
    /\ UNCHANGED <<nativeVars, oob, pending, since, clr>>
    /\ UNCHANGED hostVars

\* engineDownloadBuffer: the copy loop and the return
engineDownloadBuffer_copy ==
    /\ pc = "ed_copy"
    /\ \E bytes \in ReadNative(srcPtr, EngineCopyCount(buffer)) :
       /\ oob' = (Len(bytes) > Len(buffer))
       /\ ret' = Ret("engineDownload", hId, trace[1].r, bytes, <<>>, FALSE)
    /\ pc' = "idle"
    /\ hId' = 0
    /\ lengthHolder' = 0
    /\ buffer' = <<>>
    /\ srcPtr' = 0
    /\ lastDrain' = NoDrain
    /\ UNCHANGED <<nativeVars, trace, pending, since, clr, scen>>
    /\ UNCHANGED hostVars

UploadData == SeqsUpTo(BufBytes, MaxBufLen) \ {<<>>}

NextBuf ==
    \/ vulframInit
    \/ vulframDispose
    \/ \E id \in Handles, data \in UploadData : vulframUploadBuffer(id, data)
    \/ \E id \in Handles : vulframClearBuffer(id)
    \/ \E id \in Handles : vulframDownloadBuffer_query(id)
    \/ vulframDownloadBuffer_fill
    \/ \E h \in Handles, data \in SeqsUpTo(BufBytes, MaxBufLen) : NativeMutate(h, data)

SpecBuf == Init /\ [][NextBuf]_vars

\* --------------------------------------------------------- correlator
\* The host's pending-command table, kept around the two queue wrappers.

\* a submitted batch is entered in the table, one entry per identifier,
\* each remembering the command's position in its batch
RECURSIVE Register(_, _, _)
Register(batch, pos, c) ==
    IF batch = <<>> THEN c
    ELSE Register(Tail(batch), pos + 1,
                  [pending |-> [c.pending EXCEPT ![Head(batch).id] = pos],
                   since |-> [c.since EXCEPT ![Head(batch).id] = 0]])

\* a response matches when a command with its identifier is still pending
Matches(r, pend) == r.id \in DOMAIN pend /\ pend[r.id] # None

AfterUnmatched_abort(rest) == <<>>

\* what is still processed of a batch after an unmatched response
AfterUnmatched(rest) == rest

MatchedCmd_positional(r, pend, pos) ==
    IF \E i \in DOMAIN pend : pend[i] = pos
    THEN [id |-> CHOOSE i \in DOMAIN pend : pend[i] = pos, ord |-> pos]
    ELSE [id |-> r.id, ord |-> pend[r.id]]

\* the pending command the pos-th response of a batch is matched with
MatchedCmd(r, pend, pos) == [id |-> r.id, ord |-> pend[r.id]]

\* one drained batch run through the table, response by response
RECURSIVE Correlate(_, _, _)
Correlate(batch, pend, acc) ==
    IF batch = <<>> THEN [pending |-> pend, out |-> acc]
    ELSE LET r == Head(batch)
             cmd == MatchedCmd(r, pend, acc.seen + 1)
         IN IF Matches(r, pend)
            THEN Correlate(Tail(batch),
                           IF cmd.id \in DOMAIN pend
                           THEN [pend EXCEPT ![cmd.id] = None] ELSE pend,
                           [acc EXCEPT
                              !.delivered = Append(@, [id |-> r.id, cmd |-> cmd]),
                              !.seen = @ + 1])
            ELSE Correlate(AfterUnmatched(Tail(batch)), pend,
                           [acc EXCEPT !.diag = @ + 1, !.seen = @ + 1])

Delivered(d, i) == Cardinality({k \in 1..Len(d) : d[k].id = i})

\* --------------------------------------------------------------- queues
SendLength_short(bytes) == Len(bytes) - 1

\* const length = buffer.byteLength
SendLength(bytes) == Len(bytes)

vulframSendQueue(batch) ==
    /\ Idle
    /\ Len(cmdQ) + Len(respQ) + Len(batch) <= MaxQueue
    /\ LET bytes == SubSeq(encode(batch), 1, SendLength(encode(batch)))
           r == engine_send_queue_result(bytes)
           c == IF r = Success
                THEN Register(batch, 1, [pending |-> pending, since |-> since])
                ELSE [pending |-> pending, since |-> since]
       IN /\ cmdQ' = IF r = Success THEN cmdQ \o decode(bytes).value ELSE cmdQ
          /\ trace' = <<Call("engine_send_queue", "buf", r, Len(bytes))>>
          /\ ret' = Ret("send", 0, r, <<>>, <<>>, FALSE)
          /\ pending' = c.pending
          /\ since' = c.since
          /\ scen' = IF scen = 1 /\ Len(batch) = 1 /\ batch[1].id = 7 THEN 2 ELSE 0
    /\ lastDrain' = NoDrain
    /\ UNCHANGED <<initialized, bufs, respQ, callVars, oob, clr>>
    /\ UNCHANGED hostVars

vulframTick ==
    /\ Idle
    /\ lastDrain' = NoDrain
    /\ IF initialized
       THEN \E o \in Orders(cmdQ) : respQ' = respQ \o o /\ cmdQ' = <<>>
       ELSE UNCHANGED <<cmdQ, respQ>>
    /\ trace' = <<Call("engine_tick", "none", engine_tick_result, 0)>>
    /\ ret' = Ret("tick", 0, engine_tick_result, <<>>, <<>>, FALSE)
    /\ scen' = IF scen = 2 THEN 3 ELSE 0
    /\ UNCHANGED <<initialized, bufs, callVars, oob, pending, since, clr>>
    /\ UNCHANGED hostVars

\* the native core processes one queued command on its own
NativeProcess(i) ==
    /\ initialized
    /\ i \in 1..Len(cmdQ)
    /\ respQ' = Append(respQ, Response(cmdQ[i]))
    /\ cmdQ' = RemoveAt(cmdQ, i)
    /\ UNCHANGED <<initialized, bufs, callVars, oob, trace, ret, corrVars, clr, scen>>
    /\ UNCHANGED hostVars

\* vulframReceiveQueue up to and including its first native call
vulframReceiveQueue_query ==
    /\ Idle
    /\ LET q == SizeQuery(RespBytes) IN
       /\ trace' = <<Call("engine_receive_queue", QueryDest, q.r, q.n)>>
       /\ IF QueryReturns(q.r, q.n)
          THEN /\ ret' = Ret("recv", 0, q.r, <<>>, <<>>, FALSE)
               /\ lastDrain' = [NoDrain EXCEPT !.pre = pending]
               /\ scen' = IF scen = 3 THEN 4 ELSE 0
               /\ UNCHANGED <<callVars>>
          ELSE /\ pc' = "rq_fill"
               /\ lengthHolder' = q.n
               /\ buffer' = Uint8Array(AllocLen(q.n))
               /\ UNCHANGED <<hId, srcPtr, ret, lastDrain, scen>>
    /\ UNCHANGED <<nativeVars, oob, pending, since, clr>>
    /\ UNCHANGED hostVars

\* vulframReceiveQueue from its second native call to its return (or throw),
\* and the table's pass over the returned batch
vulframReceiveQueue_fill ==
    /\ pc = "rq_fill"
    /\ \E o \in FillOutcomes(RespBytes, lengthHolder, buffer) :
       LET rr == ReceiveReturn(o.r, o.dest)
           c == Correlate(rr.batch, pending, [NoDrain EXCEPT !.pre = pending])
       IN /\ trace' = Append(trace, Call("engine_receive_queue", "buf", o.r, o.n))
          /\ oob' = (o.hi > Len(buffer))
          /\ respQ' = IF o.took THEN <<>> ELSE respQ
          /\ ret' = Ret("recv", 0, rr.result, <<>>, rr.batch, rr.threw)
          /\ pending' = c.pending
          /\ since' = [i \in Ids |-> since[i] + Delivered(c.out.delivered, i)]
          /\ lastDrain' = c.out
    /\ pc' = "idle"
    /\ lengthHolder' = 0
    /\ buffer' = <<>>
    /\ scen' = IF scen = 3 THEN 4 ELSE 0
    /\ UNCHANGED <<initialized, bufs, cmdQ, hId, srcPtr, clr>>
    /\ UNCHANGED hostVars

Cmds == [kind : Kinds, id : Ids]

Batches == {b \in SeqsUpTo(Cmds, MaxQueue) :
               \A i, j \in 1..Len(b) : i # j => b[i].id # b[j].id}

NextQueue ==
    \/ vulframInit
    \/ vulframDispose
    \/ \E batch \in Batches : vulframSendQueue(batch)
    \/ vulframTick
    \/ \E i \in 1..MaxQueue : NativeProcess(i)
    \/ vulframReceiveQueue_query
    \/ vulframReceiveQueue_fill

SpecQueue == Init /\ [][NextQueue]_vars

\* ------------------------------------------- bind/ts: the other wrappers
\* The wrappers of bind/ts hand raw bytes in and out; no codec, no table.

engineInit ==
    /\ Idle
    /\ lastDrain' = NoDrain
    /\ initialized' = TRUE
    /\ trace' = <<Call("engine_init", "none", engine_init_result, 0)>>
    /\ ret' = Ret("engineInit", 0, engine_init_result, <<>>, <<>>, FALSE)
    /\ scen' = 0
    /\ UNCHANGED <<bufs, cmdQ, respQ, callVars, oob, pending, since, clr>>
    /\ UNCHANGED hostVars

engineDispose ==
    /\ Idle
    /\ lastDrain' = NoDrain
    /\ initialized' = FALSE
    /\ bufs' = EmptyBufs
    /\ cmdQ' = <<>>
    /\ respQ' = <<>>
    /\ clr' = [h \in Handles |-> 0]
    /\ trace' = <<Call("engine_dispose", "none", engine_dispose_result, 0)>>
    /\ ret' = Ret("engineDispose", 0, engine_dispose_result, <<>>, <<>>, FALSE)
    /\ scen' = 0
    /\ UNCHANGED <<callVars, oob, pending, since>>
    /\ UNCHANGED hostVars

engineUploadBuffer(id, data) ==
    /\ Idle
    /\ lastDrain' = NoDrain
    /\ bufs' = IF initialized THEN [bufs EXCEPT ![id] = data] ELSE bufs
    /\ clr' = IF initialized THEN [clr EXCEPT ![id] = 0] ELSE clr
    /\ trace' = <<Call("engine_upload_buffer", "buf", engine_upload_buffer_result,
                       Len(data))>>
    /\ ret' = Ret("engineUpload", id, engine_upload_buffer_result, <<>>, <<>>, FALSE)
    /\ scen' = 0
    /\ UNCHANGED <<initialized, cmdQ, respQ, callVars, oob, pending, since>>
    /\ UNCHANGED hostVars

engineClearBuffer(id) ==
    /\ Idle
    /\ lastDrain' = NoDrain
    /\ bufs' = IF initialized /\ bufs[id] # NoBuf
               THEN [bufs EXCEPT ![id] = <<>>] ELSE bufs
    /\ clr' = IF initialized
              THEN [clr EXCEPT ![id] = IF @ < 2 THEN @ + 1 ELSE 2] ELSE clr
    /\ trace' = <<Call("engine_clear_buffer", "none", engine_clear_buffer_result, 0)>>
    /\ ret' = Ret("engineClear", id, engine_clear_buffer_result, <<>>, <<>>, FALSE)
    /\ scen' = 0
    /\ UNCHANGED <<initialized, cmdQ, respQ, callVars, oob, pending, since>>
    /\ UNCHANGED hostVars

\* engineSendQueue(data): the caller's bytes go to the native core as they are
engineSendQueue(data) ==
    /\ Idle
    /\ Len(cmdQ) + Len(respQ) + Len(decode(data).value) <= MaxQueue
    /\ LET r == engine_send_queue_result(data)
       IN /\ cmdQ' = IF r = Success THEN cmdQ \o decode(data).value ELSE cmdQ
          /\ trace' = <<Call("engine_send_queue", "buf", r, Len(data))>>
          /\ ret' = Ret("engineSend", 0, r, <<>>, <<>>, FALSE)
    /\ lastDrain' = NoDrain
    /\ scen' = 0
    /\ UNCHANGED <<initialized, bufs, respQ, callVars, oob, pending, since, clr>>
    /\ UNCHANGED hostVars

engineTick ==
    /\ Idle
    /\ lastDrain' = NoDrain
    /\ IF initialized
       THEN \E o \in Orders(cmdQ) : respQ' = respQ \o o /\ cmdQ' = <<>>
       ELSE UNCHANGED <<cmdQ, respQ>>
    /\ trace' = <<Call("engine_tick", "none", engine_tick_result, 0)>>
    /\ ret' = Ret("engineTick", 0, engine_tick_result, <<>>, <<>>, FALSE)
    /\ scen' = 0
    /\ UNCHANGED <<initialized, bufs, callVars, oob, pending, since, clr>>
    /\ UNCHANGED hostVars

\* the wrappers that poll a queue of the native core: one native call, then
\* the copy loop over the storage the core handed out
PollReturn(op, q, stored) ==
    Ret(op, 0, q.r,
        IF EngineReturnsEmpty(q.n, q.ptr) THEN <<>>
        ELSE SubSeq(stored, 1, EngineCopyCount(Uint8Array(EngineAllocLen(q.n)))),
        <<>>, FALSE)

engineReceiveQueue ==
    /\ Idle
    /\ LET q == PointerOut(RespBytes, LentStore) IN
       /\ trace' = <<Call("engine_receive_queue", "out", q.r, q.n)>>
       /\ ret' = PollReturn("engineReceiveQueue", q, RespBytes)
    /\ respQ' = IF initialized THEN <<>> ELSE respQ
    /\ lastDrain' = NoDrain
    /\ scen' = 0
    /\ UNCHANGED <<initialized, bufs, cmdQ, callVars, oob, pending, since, clr>>
    /\ UNCHANGED hostVars

engineReceiveEvents(blob, code) ==
    /\ Idle
    /\ LET q == PointerOutWith(blob, LentStore, code) IN
       /\ trace' = <<Call("engine_receive_events", "out", q.r, q.n)>>
       /\ ret' = PollReturn("engineReceiveEvents", q, blob)
    /\ lastDrain' = NoDrain
    /\ scen' = 0
    /\ UNCHANGED <<nativeVars, callVars, oob, pending, since, clr>>
    /\ UNCHANGED hostVars

engineGetProfiling(blob, code) ==
    /\ Idle
    /\ LET q == PointerOutWith(blob, LentStore, code) IN
       /\ trace' = <<Call("engine_get_profiling", "out", q.r, q.n)>>
       /\ ret' = PollReturn("engineGetProfiling", q, blob)
    /\ lastDrain' = NoDrain
    /\ scen' = 0
    /\ UNCHANGED <<nativeVars, callVars, oob, pending, since, clr>>
    /\ UNCHANGED hostVars

\* the batches of the one command identifier the full gateway is driven with
Batches7 == {b \in Batches : \A k \in 1..Len(b) : b[k].id = 7}

\* what a caller hands to engineSendQueue: an encoded batch, or a batch cut
\* short after its array header
SendData == {encode(b) : b \in Batches7} \cup {<<ArrayHdr + 1>>}

\* what the native core holds for an events or a profiling poll
NativeBlobs == SeqsUpTo(BufBytes, 1)

\* the result codes such a poll comes back with on a running engine
PollCodes == {Success, UnknownError}

\* buffer contents of every length, one per length
SizedData == {d \in SeqsUpTo(BufBytes, MaxBufLen) :
                 \A i \in 1..Len(d) : \A b \in BufBytes : d[i] <= b}

\* every wrapper of the gateway, on one handle, one command identifier and
\* one buffer content per length
Next ==
    \/ vulframInit
    \/ vulframDispose
    \/ \E data \in SizedData \ {<<>>} : vulframUploadBuffer(1, data)
    \/ vulframClearBuffer(1)
    \/ vulframDownloadBuffer_query(1)
    \/ vulframDownloadBuffer_fill
    \/ engineDownloadBuffer_call(1)
    \/ engineDownloadBuffer_copy
    \/ \E data \in SizedData : NativeMutate(1, data)
    \/ \E batch \in Batches7 : vulframSendQueue(batch)
    \/ vulframTick
    \/ \E i \in 1..MaxQueue : NativeProcess(i)
    \/ vulframReceiveQueue_query
    \/ vulframReceiveQueue_fill
    \/ engineInit
    \/ engineDispose
    \/ \E data \in SizedData \ {<<>>} : engineUploadBuffer(1, data)
    \/ engineClearBuffer(1)
    \/ \E data \in SendData : engineSendQueue(data)
    \/ engineTick
    \/ engineReceiveQueue
    \/ \E blob \in NativeBlobs, code \in PollCodes : engineReceiveEvents(blob, code)
    \/ \E blob \in NativeBlobs, code \in PollCodes : engineGetProfiling(blob, code)

Spec == Init /\ [][Next]_vars

\* ================================================================ claims
TwoPhaseOp == ret.op \in {"download", "recv"}

Returned == pc = "idle" /\ Len(trace) >= 1

\* C1: when the size query (null destination) of vulframDownloadBuffer or
\* vulframReceiveQueue reports size zero, the wrapper returns an empty
\* buffer/batch with that call's result code and issues no fill call.
C1_ZeroSizeReturnsEmpty ==
    (Len(trace) >= 1 /\ trace[1].dest = "null" /\ trace[1].n = 0)
        => /\ Len(trace) = 1
           /\ pc = "idle"
           /\ TwoPhaseOp
           /\ ret.buf = <<>>
           /\ ret.batch = <<>>
           /\ ~ret.threw
           /\ ret.result = trace[1].r

\* a download of an initialized engine whose size query reported zero
C1_Witness ==
    /\ ret.op = "download"
    /\ ret.pre
    /\ Len(trace) = 1
    /\ trace[1].dest = "null"
    /\ trace[1].n = 0
    /\ trace[1].r = Success

\* C2: the fill call of vulframDownloadBuffer is made only after a size
\* query that reported N > 0, with a host buffer of length exactly N, and
\* when the handle holds N bytes at the fill call and both calls succeed
\* the download returns exactly those N bytes.
C2_FillOnlyForN ==
    [][/\ pc' = "dl_fill" =>
             /\ Len(trace') = 1
             /\ trace'[1].r = Success
             /\ trace'[1].n > 0
             /\ Len(buffer') = trace'[1].n
             /\ lengthHolder' = trace'[1].n
       /\ (pc = "dl_fill" /\ pc' = "idle") =>
             /\ Len(trace') = 2
             /\ trace'[1].n = Len(buffer)
             /\ (trace'[2].r = Success /\ Len(Stored(hId)) = trace'[1].n)
                   => (ret'.result = Success /\ ret'.buf = Stored(hId))]_vars

\* a download that returned the two bytes its handle holds
C2_Witness ==
    /\ ret.op = "download"
    /\ pc = "idle"
    /\ Len(trace) = 2
    /\ trace[1].n = 2
    /\ trace[2].r = Success
    /\ ret.buf = Stored(ret.id)
    /\ Len(ret.buf) = 2

\* C3: whatever the native core does to the handle between the two calls,
\* no access goes past the host buffer's allocated length and the returned
\* buffer is never longer than the size the first call reported.
C3_NeverPastHostBuffer ==
    /\ ~oob
    /\ (ret.op \in {"download", "engineDownload"} /\ Returned)
          => Len(ret.buf) <= trace[1].n
    /\ pc \in {"dl_fill", "ed_copy"} => Len(buffer) = lengthHolder

\* a download whose fill call reported a larger size than its size query
C3_Witness ==
    /\ ret.op = "download"
    /\ pc = "idle"
    /\ Len(trace) = 2
    /\ trace[2].n > trace[1].n
    /\ trace[2].r = Success

\* C4: a wrapper returns the result code of its last native call unchanged,
\* makes no further native call after a nonzero code, and never throws
\* away a nonzero code.
C4_ResultCodePropagated ==
    /\ \A k \in 1..(Len(trace) - 1) : trace[k].r = Success
    /\ pc # "idle" => \A k \in 1..Len(trace) : trace[k].r = Success
    /\ (pc = "idle" /\ ret.op # "none") =>
          /\ Len(trace) >= 1
          /\ IF ret.threw
             THEN trace[Len(trace)].r = Success
             ELSE ret.result = trace[Len(trace)].r

\* a download whose fill call failed and whose caller got that code
C4_Witness ==
    /\ pc = "idle"
    /\ ret.op = "download"
    /\ Len(trace) = 2
    /\ trace[2].r = BufferOverflow
    /\ ret.result = BufferOverflow

\* C5: a received batch that cannot be decoded is reported and treated as
\* empty; vulframReceiveQueue raises no uncaught failure.
C5_DecodeFailureIsReported == ret.op = "recv" => ~ret.threw

\* C6: init succeeds exactly from the uninitialized state and otherwise
\* returns AlreadyInitialized; every other call made while the engine is
\* not initialized returns NotInitialized.
C6_Lifecycle ==
    /\ ret.op \in {"init", "engineInit"} =>
          /\ ret.result = Success <=> ~ret.pre
          /\ ret.pre => ret.result = AlreadyInitialized
    /\ (pc = "idle" /\ ret.op \notin {"none", "init", "engineInit"} /\ ~ret.pre) =>
          /\ ret.result = NotInitialized
          /\ ~ret.threw
          /\ ret.buf = <<>>
          /\ ret.batch = <<>>

\* a dispose of an engine that was initialized (its send succeeded) and is
\* already disposed
C6_Witness ==
    /\ ret.op = "dispose"
    /\ ~ret.pre
    /\ ret.result = NotInitialized
    /\ ~initialized
    /\ pending[7] # None

\* C7: on an initialized engine every clear returns success, and a download
\* of a handle cleared twice in a row, not populated since, returns an
\* empty buffer with success.
C7_IdempotentClear ==
    /\ (ret.op = "clear" /\ ret.pre) => ret.result = Success
    /\ (ret.op = "download" /\ pc = "idle" /\ ret.pre /\ clr[ret.id] = 2) =>
          /\ ret.buf = <<>>
          /\ ret.result = Success

\* a download of a handle that was populated and then cleared twice
C7_Witness ==
    /\ ret.op = "download"
    /\ pc = "idle"
    /\ ret.pre
    /\ clr[ret.id] = 2
    /\ bufs[ret.id] = <<>>
    /\ ret.buf = <<>>

\* the positions of a drained batch whose response has a pending command:
\* the first response of each identifier that was pending before the drain
Matched(batch, pre) ==
    {k \in 1..Len(batch) :
        /\ pre[batch[k].id] # None
        /\ \A j \in 1..(k - 1) : batch[j].id # batch[k].id}

\* the n-th smallest element of a set of positions
Nth(E, n) == CHOOSE e \in E : Cardinality({x \in E : x < e}) = n - 1

\* C8: a submitted identifier gets at most one response delivered; a
\* response whose identifier has no pending command is counted as a
\* diagnostic and dropped, and the rest of its batch is still processed.
C8_AtMostOneResponse ==
    /\ \A i \in Ids : since[i] <= 1
    /\ ret.op = "recv" =>
          LET E == Matched(ret.batch, lastDrain.pre) IN
          /\ lastDrain.seen = Len(ret.batch)
          /\ Len(lastDrain.delivered) = Cardinality(E)
          /\ lastDrain.diag = Len(ret.batch) - Cardinality(E)
          /\ \A k \in 1..Len(lastDrain.delivered) :
                lastDrain.delivered[k].id = ret.batch[Nth(E, k)].id

\* a batch of three whose second response is unmatched and dropped and
\* whose third response is still delivered
C8_Witness ==
    /\ ret.op = "recv"
    /\ Len(ret.batch) = 3
    /\ ret.batch[1].id = ret.batch[2].id
    /\ lastDrain.diag = 1
    /\ Len(lastDrain.delivered) = 2
    /\ lastDrain.delivered[2].id = ret.batch[3].id

PairwiseDistinct(batch) ==
    \A i, j \in 1..Len(batch) : i # j => batch[i].id # batch[j].id

\* C9: a response is matched with the pending command that carries its
\* identifier, whatever its position in the batch; when the identifiers of
\* a batch are pairwise distinct and all pending, every response is matched.
C9_OrderIndependent ==
    ret.op = "recv" =>
       /\ \A k \in 1..Len(lastDrain.delivered) :
             LET d == lastDrain.delivered[k] IN
             /\ d.cmd.id = d.id
             /\ d.cmd.ord # None
             /\ d.cmd.ord = lastDrain.pre[d.id]
       /\ (PairwiseDistinct(ret.batch)
           /\ \A k \in 1..Len(ret.batch) : lastDrain.pre[ret.batch[k].id] # None)
             => /\ Len(lastDrain.delivered) = Len(ret.batch)
                /\ lastDrain.diag = 0

\* submitted [7, 1, 2], received [2, 1, 7]
C9_Witness ==
    /\ ret.op = "recv"
    /\ lastDrain.delivered =
          <<[id |-> 2, cmd |-> [id |-> 2, ord |-> 3]],
            [id |-> 1, cmd |-> [id |-> 1, ord |-> 2]],
            [id |-> 7, cmd |-> [id |-> 7, ord |-> 1]]>>

\* C10: the native core produces a response only by processing a queued
\* command with the same identifier, receive_queue returns only responses
\* the native core had produced, and init, send of one command 7, tick,
\* receive_queue yields exactly one response, carrying identifier 7.
C10_ResponseCausality ==
    [][/\ Len(respQ') > Len(respQ) =>
             /\ Len(cmdQ) - Len(cmdQ') = Len(respQ') - Len(respQ)
             /\ \A k \in (Len(respQ) + 1)..Len(respQ') :
                   \E j \in 1..Len(cmdQ) : cmdQ[j].id = respQ'[k].id
       /\ Len(cmdQ') > Len(cmdQ) => (ret'.op = "send" /\ ret'.result = Success)
       /\ (pc = "rq_fill" /\ pc' = "idle") =>
             \A k \in 1..Len(ret'.batch) : ret'.batch[k] \in Range(respQ)
       /\ scen' = 4 =>
             /\ ret'.op = "recv"
             /\ ret'.result = Success
             /\ ~ret'.threw
             /\ Len(ret'.batch) = 1
             /\ ret'.batch[1].id = 7]_vars

\* the scenario ran to its receive_queue, which returned the response to 7
C10_Witness ==
    /\ scen = 4
    /\ ret.op = "recv"
    /\ Len(trace) = 2
    /\ ret.batch = <<[kind |-> 0, id |-> 7]>>

\* C11: the batch a poll hands to the host is exactly what the native queue
\* held when the poll took it, in the queue's order: a poll that empties
\* the native queue returns all of it, and a poll that returns nothing
\* leaves the queue as it was.
C11_EventOrderPreserved ==
    [][(pc = "rq_fill" /\ pc' = "idle") =>
          /\ ~ret'.threw
          /\ IF respQ' = respQ
             THEN ret'.batch = <<>>
             ELSE ret'.batch = respQ]_vars

\* ------------------------------------------------------ event dispatch
\* the outer tags of the two EngineEvent unions the repository declares:
\* events.ts, and the index of the command types
EngineEvent ==
    [type : {"window", "pointer", "keyboard", "gamepad", "joystick", "system"}]

EngineEvent_cmds ==
    [type : {"window", "pointer", "keyboard", "gamepad", "system"}]

\* the events the native core emits: one of the six categories each
NativeEvents ==
    [type : {"window", "pointer", "keyboard", "gamepad", "joystick", "system"}]

isWindowEvent(event) == event.type = "window"

isPointerEvent(event) == event.type = "pointer"

isKeyboardEvent(event) == event.type = "keyboard"

isGamepadEvent(event) == event.type = "gamepad"

isJoystickEvent_gamepad(event) == event.type = "gamepad"

isJoystickEvent(event) == event.type = "joystick"

isSystemEvent(event) == event.type = "system"

\* the guards an event passes
GuardsPassed(event) ==
    {g \in {"isWindowEvent", "isPointerEvent", "isKeyboardEvent",
            "isGamepadEvent", "isJoystickEvent", "isSystemEvent"} :
        \/ g = "isWindowEvent" /\ isWindowEvent(event)
        \/ g = "isPointerEvent" /\ isPointerEvent(event)
        \/ g = "isKeyboardEvent" /\ isKeyboardEvent(event)
        \/ g = "isGamepadEvent" /\ isGamepadEvent(event)
        \/ g = "isJoystickEvent" /\ isJoystickEvent(event)
        \/ g = "isSystemEvent" /\ isSystemEvent(event)}

\* the host runs the guards over every event of a decoded batch
Dispatch(batch) ==
    /\ Idle
    /\ dispatch' = [batch |-> batch,
                    hits |-> [k \in 1..Len(batch) |-> GuardsPassed(batch[k])]]
    /\ UNCHANGED <<nativeVars, callVars, oob, trace, ret, corrVars, clr, scen,
                   env, proc>>

\* ------------------------------------------------- end of the process
\* process.on('beforeExit', () => vulframCoreClose()): the event loop has
\* nothing left to do, the handler closes the library, the process ends
beforeExit ==
    /\ Idle
    /\ proc' = [proc EXCEPT !.handle = "closed", !.exit = "drained"]
    /\ pc' = "ended"
    /\ UNCHANGED <<nativeVars, hId, lengthHolder, buffer, srcPtr, oob, trace, ret,
                   corrVars, clr, scen, env, dispatch>>

\* the ways a process ends without 'beforeExit' being emitted
Ends(how) ==
    /\ proc.exit = "running"
    /\ proc' = [proc EXCEPT !.exit = how]
    /\ pc' = "ended"
    /\ UNCHANGED <<nativeVars, hId, lengthHolder, buffer, srcPtr, oob, trace, ret,
                   corrVars, clr, scen, env, dispatch>>

\* the host calls process.exit()
processExit == Idle /\ Ends("exit")

\* an exception nobody catches: the throw of the module's evaluation, or
\* one thrown by host code later
uncaughtException == pc \in {"idle", "loadFailed"} /\ Ends("uncaught")

\* a fatal signal
killed == pc \in {"idle", "loadFailed"} /\ Ends("signal")

\* the module is loaded on any platform and file system
InitHost == \E e \in Envs : InitIn(e)

NextHost ==
    \/ vulframInit
    \/ vulframDispose
    \/ \E batch \in SeqsUpTo(NativeEvents, MaxEvents) : Dispatch(batch)
    \/ beforeExit
    \/ processExit
    \/ uncaughtException
    \/ killed

SpecHost == InitHost /\ [][NextHost]_vars

PollOps == {"engineDownload", "engineReceiveQueue", "engineReceiveEvents",
            "engineGetProfiling"}

Origins(c) ==
    {o \in {"general", "winit", "wgpu", "cmd"} :
        \/ o = "general" /\ c \in UnknownError..BufferOverflow
        \/ o = "winit" /\ c \in WinitRange
        \/ o = "wgpu" /\ c \in WgpuRange
        \/ o = "cmd" /\ c \in CmdRange}

\* C13: the general codes are 0..5 in the order of the enum, each subsystem
\* code lies in its reserved range, the ranges are pairwise disjoint, zero
\* is the only code without an error origin, every other code has exactly
\* one origin, and every code a wrapper returns is a member of the enum.
C13_ResultCodeSpace ==
    /\ <<Success, UnknownError, NotInitialized, AlreadyInitialized, WrongThread,
         BufferOverflow>> = <<0, 1, 2, 3, 4, 5>>
    /\ WinitError \in WinitRange
    /\ WgpuInstanceError \in WgpuRange
    /\ CmdInvalidCborError \in CmdRange
    /\ WinitRange \cap WgpuRange = {}
    /\ WinitRange \cap CmdRange = {}
    /\ WgpuRange \cap CmdRange = {}
    /\ \A c \in VulframResult :
          IF c = Success THEN Origins(c) = {} ELSE Cardinality(Origins(c)) = 1
    /\ (pc = "idle" /\ ret.op # "none" /\ ~ret.threw) =>
          /\ ret.result \in VulframResult
          /\ ret.result # Success => Cardinality(Origins(ret.result)) = 1

\* a wrapper returned a code of the command-processing range
C13_Witness ==
    /\ pc = "idle"
    /\ ret.op = "engineSend"
    /\ ret.result = CmdInvalidCborError
    /\ Origins(ret.result) = {"cmd"}

\* C14 as stated: every event of a dispatched batch passes exactly one of
\* the six guards and is a member of every EngineEvent union the
\* repository declares.
C14_SixTagsEverywhere ==
    \A k \in 1..Len(dispatch.batch) :
       /\ Cardinality(dispatch.hits[k]) = 1
       /\ dispatch.batch[k] \in EngineEvent
       /\ dispatch.batch[k] \in EngineEvent_cmds

\* the part of C14 about the guards and the union of events.ts alone
C14_ExactlyOneGuard ==
    \A k \in 1..Len(dispatch.batch) :
       /\ Cardinality(dispatch.hits[k]) = 1
       /\ dispatch.batch[k] \in EngineEvent

\* C15: a process that ended after the library was opened has closed it.
C15_LibraryReleased == pc = "ended" => proc.handle # "open"

\* the native function a wrapper of packages/engine calls
NativeOf(op) ==
    CASE op = "init" -> "engine_init"
      [] op = "dispose" -> "engine_dispose"
      [] op = "tick" -> "engine_tick"
      [] op = "send" -> "engine_send_queue"
      [] op = "upload" -> "engine_upload_buffer"
      [] op = "clear" -> "engine_clear_buffer"
      [] op = "download" -> "engine_download_buffer"
      [] op = "recv" -> "engine_receive_queue"

\* C16: one invocation of vulframInit, vulframDispose, vulframTick,
\* vulframSendQueue, vulframUploadBuffer or vulframClearBuffer makes exactly
\* one native call; one of vulframDownloadBuffer or vulframReceiveQueue
\* makes one or two, the second only after the first returned zero; no
\* native call follows a nonzero result code.
C16_NoRetry ==
    /\ Len(trace) <= 2
    /\ \A k \in 1..Len(trace) : k < Len(trace) => trace[k].r = Success
    /\ pc \in {"dl_fill", "rq_fill"} => (Len(trace) = 1 /\ trace[1].r = Success)
    /\ (pc = "idle" /\ ret.op \in {"init", "dispose", "tick", "send", "upload", "clear"}) =>
          /\ Len(trace) = 1
          /\ trace[1].fn = NativeOf(ret.op)
    /\ (pc = "idle" /\ ret.op \in {"download", "recv"}) =>
          /\ Len(trace) \in {1, 2}
          /\ \A k \in 1..Len(trace) : trace[k].fn = NativeOf(ret.op)
          /\ Len(trace) = 2 => trace[2].dest # trace[1].dest

\* a receive whose fill call failed: it returned after its second call
C16_Witness ==
    /\ pc = "idle"
    /\ ret.op = "recv"
    /\ Len(trace) = 2
    /\ trace[2].r = BufferOverflow
    /\ ret.result = BufferOverflow
    /\ ret.batch = <<>>

\* the platform and architecture have a library in the table
HasEntry == env.platform \in {"darwin", "linux", "win32"} /\ env.arch \in {"arm64", "x64"}

\* C17: VULFRAM_CORE_PATH is null exactly when the platform/architecture
\* has no table entry, otherwise the relative place if it exists, else the
\* module-root place if it exists, else the path unresolved; when there is
\* no entry or the library is at none of the places the load fails, no
\* gateway call is ever made, and the library is opened at most once.
C17_DiscoveryFailureIsFatal ==
    /\ proc.path = Null <=> ~HasEntry
    /\ HasEntry =>
          /\ proc.path[2] = <<"assets", env.arch, env.platform>>
          /\ proc.path[1] = IF "relative" \in env.exists THEN "relative"
                            ELSE IF "absolute" \in env.exists THEN "absolute"
                            ELSE "path"
    /\ (~HasEntry \/ env.exists = {}) =>
          /\ proc.handle = "none"
          /\ pc \in {"loadFailed", "ended"}
          /\ trace = <<>>
          /\ ret = NoRet
          /\ ~initialized
    /\ proc.opens <= 1
    /\ ~HasEntry => proc.opens = 0

\* a supported platform whose library is at none of the places: the one
\* dlopen threw and the process ended on it, no gateway call made
C17_Witness ==
    /\ HasEntry
    /\ env.exists = {}
    /\ proc.path[1] = "path"
    /\ proc.opens = 1
    /\ proc.handle = "none"
    /\ pc = "ended"
    /\ proc.exit = "uncaught"
    /\ trace = <<>>

\* what a fill call can leave in a fresh host buffer of n bytes
Filled(stored, n) ==
    {WriteBytes(Uint8Array(n), stored, k) : k \in 0..Len(stored)} \cup {<<>>}

\* a wrapper that runs in one step returned in this step
Ran(op) == pc = "idle" /\ pc' = "idle" /\ <<ret', trace'>> # <<ret, trace>> /\ ret'.op = op

\* C18: what a download or a poll returns is made of a fresh host buffer
\* and of what the native core holds during that invocation, never of an
\* earlier result; every invocation makes its own native call; between
\* invocations the host keeps no buffer, length or pointer.
C18_NoHostCache ==
    [][/\ (pc = "dl_fill" /\ pc' = "idle") =>
             /\ Len(trace') = 2
             /\ ret'.buf \in Filled(Stored(hId), trace'[1].n)
       /\ (pc = "rq_fill" /\ pc' = "idle") =>
             /\ Len(trace') = 2
             /\ (ret'.threw \/ ret'.batch = <<>> \/ ret'.batch = respQ)
       /\ (Ran("download") \/ Ran("recv")) =>
             /\ Len(trace') = 1
             /\ ret'.buf = <<>>
             /\ ret'.batch = <<>>
       /\ (pc = "ed_copy" /\ pc' = "idle") =>
             /\ Len(ret'.buf) = trace'[1].n
             /\ srcPtr \in Handles => ret'.buf = Stored(srcPtr)
       /\ Ran("engineDownload") => ret'.buf = <<>>
       /\ Ran("engineReceiveQueue") =>
             /\ Len(trace') = 1
             /\ ret'.buf = IF initialized THEN RespBytes ELSE <<>>
       /\ (Ran("engineReceiveEvents") \/ Ran("engineGetProfiling")) =>
             /\ Len(trace') = 1
             /\ Len(ret'.buf) = trace'[1].n
       /\ pc' = "idle" =>
             /\ buffer' = <<>>
             /\ lengthHolder' = 0
             /\ srcPtr' = 0]_vars

\* a queue poll of bind/ts that returned the one response the native core
\* held, after its one native call
C18_Witness ==
    /\ pc = "idle"
    /\ ret.op = "engineReceiveQueue"
    /\ Len(trace) = 1
    /\ ret.buf = encode(<<[kind |-> 0, id |-> 7]>>)
    /\ respQ = <<>>

\* C19 as stated: whichever of the six receiving wrappers returned a
\* nonzero result code returned an empty buffer or batch with it.
C19_NonzeroMeansEmpty ==
    (pc = "idle" /\ ret.op \in {"download", "recv"} \cup PollOps
       /\ ~ret.threw /\ ret.result # Success) =>
          /\ ret.buf = <<>>
          /\ ret.batch = <<>>

\* C19, amended: vulframDownloadBuffer and vulframReceiveQueue return an
\* empty buffer or batch with every nonzero result code; a wrapper of
\* bind/ts returns an empty buffer when the reported size is zero and
\* otherwise a buffer of the reported size, whatever the result code.
C19_NonzeroMeansEmptyInEngine ==
    /\ (pc = "idle" /\ ret.op \in {"download", "recv"}
          /\ ~ret.threw /\ ret.result # Success) =>
             /\ ret.buf = <<>>
             /\ ret.batch = <<>>
    /\ (pc = "idle" /\ ret.op \in PollOps) =>
          /\ Len(ret.buf) = trace[1].n
          /\ ret.result = trace[1].r

\* a profiling poll of bind/ts that came back with an error code and a byte
C19_Witness ==
    /\ pc = "idle"
    /\ ret.op = "engineGetProfiling"
    /\ ret.result = UnknownError
    /\ Len(ret.buf) = 1

====
